---- MODULE Spec2Model ----
(***************************************************************************)
(* Model of ondd_ipc: the XML-over-UNIX-socket client of the ONDD daemon.  *)
(*                                                                         *)
(* The model follows the Python 2.7 semantics under which the package's    *)
(* tests pass (test_read expects the trailing NUL to be stripped, which    *)
(* needs data[-1] to be a one-character string).                           *)
(*                                                                         *)
(* Representation of Python values:                                        *)
(*   - a string (bytes or unicode) is a sequence of symbols; a symbol is   *)
(*     one NUL byte, one byte that is not valid UTF-8, one markup tag, or  *)
(*     one text character;                                                 *)
(*   - an Element is a record [tag, attrib, text, kids];                   *)
(*   - None is None where a string may stand (a one-symbol sequence whose  *)
(*     symbol occurs in no string) and NoElem where an Element may stand   *)
(*     (an element record whose tag no markup has);                        *)
(*   - a list is a sequence, a dict is a record or a function;             *)
(*   - the outcome of a call is [st |-> "return", v |-> value] or          *)
(*     [st |-> "raise", v |-> exception name].                             *)
(***************************************************************************)
EXTENDS Integers, Sequences, FiniteSets, TLC

\* ---------------------------------------------------------------- bounds
MaxCalls == 2      \* client calls made one after the other
MaxChunk == 2      \* symbols one recv can return
MaxWire  == 3      \* length of the arbitrary byte streams the peer may send
MaxBlocks == 3     \* the block counts a transfer reports run up to this
MaxDelta == 2      \* how far from an offset the frequencies tried lie
MaxFields == 3     \* keyword arguments handed to kw2xml at once
MaxVolt == 2       \* characters of the voltage texts tried
MaxPayload == 3    \* symbols of the payload strings tried

\* ------------------------------------------------------- program constants
ONDD_SOCKET_TIMEOUT == 20
BUFFSIZE == 2048


\* ------------------------------------------------------------- symbols
Sym(k, t, a) == [k |-> k, t |-> t, a |-> a]
NUL == Sym("nul", "", <<>>)
BAD == Sym("bad", "", <<>>)            \* a byte that is not valid UTF-8
Ch(c) == Sym("char", c, <<>>)
Op(tag) == Sym("open", tag, <<>>)
OpA(tag, attrs) == Sym("open", tag, attrs)
Cl(tag) == Sym("close", tag, <<>>)

None == <<Sym("None", "", <<>>)>>
NoElem == [tag |-> "", attrib |-> <<>>, text |-> None, kids |-> <<>>]

Str1(c) == <<Ch(c)>>
Str2(c, d) == <<Ch(c), Ch(d)>>
Str3(c, d, e) == <<Ch(c), Ch(d), Ch(e)>>

YES == Str1("yes")
NO == Str1("no")
ONDD_BAD_RESPONSE_CODE == Str3("4", "0", "0")

Digits == {"0", "1", "2", "3", "4", "5", "6", "7", "8", "9"}
DigitVal(c) ==
    CASE c = "0" -> 0 [] c = "1" -> 1 [] c = "2" -> 2 [] c = "3" -> 3
      [] c = "4" -> 4 [] c = "5" -> 5 [] c = "6" -> 6 [] c = "7" -> 7
      [] c = "8" -> 8 [] OTHER -> 9

\* ------------------------------------------------------------- outcomes
Ret(v) == [st |-> "return", v |-> v]
Raise(e) == [st |-> "raise", v |-> e]
IsRet(o) == o.st = "return"
IsRaise(o) == o.st = "raise"
NoOutcome == [st |-> "none", v |-> None]

SocketErrors == {"socket.error", "socket.timeout"}

\* Python truthiness of a value that is None or a string
Truthy(x) == x # None /\ x # <<>>

RECURSIVE IndexOf(_, _, _)
\* position of the first element of s, from i on, that equals x; 0 if none
IndexOf(s, x, i) ==
    IF i > Len(s) THEN 0
    ELSE IF s[i] = x THEN i ELSE IndexOf(s, x, i + 1)

Contains(s, x) == IndexOf(s, x, 1) # 0

\* ===================================================== utils.py (pure)

\* typed Python values handed to kw2xml
PyInt(n) == [ty |-> "int", v |-> n]
PyStr(s) == [ty |-> "str", v |-> s]
PyBool(b) == [ty |-> "bool", v |-> b]

RECURSIVE IntStr(_)
\* str(n) for a natural number n: its decimal digits
IntStr(n) ==
    LET d == CHOOSE c \in Digits : DigitVal(c) = n % 10
    IN  IF n < 10 THEN <<Ch(d)>> ELSE IntStr(n \div 10) \o <<Ch(d)>>

\* '%s' % v
Format(pv) ==
    CASE pv.ty = "int" -> IntStr(pv.v)
      [] pv.ty = "bool" -> IF pv.v THEN Str1("True") ELSE Str1("False")
      [] OTHER -> pv.v

RECURSIVE kw2xml(_)
\* kwargs is the sequence of <<key, value>> in the iteration order of
\* kwargs.items(); one <key>value</key> fragment is appended per item
kw2xml(kwargs) ==
    IF kwargs = <<>> THEN <<>>
    ELSE <<Op(kwargs[1][1])>> \o Format(kwargs[1][2]) \o <<Cl(kwargs[1][1])>>
         \o kw2xml(Tail(kwargs))

RECURSIVE xml2dictFrom(_, _, _)
xml2dictFrom(kids, i, d) ==
    IF i > Len(kids) THEN d
    ELSE xml2dictFrom(kids, i + 1,
            [t \in (DOMAIN d) \cup {kids[i].tag} |->
                IF t = kids[i].tag THEN kids[i].text ELSE d[t]])

\* d[node.tag] = node.text for every child, later children overwriting
xml2dict(xml) == xml2dictFrom(xml.kids, 1, [t \in {} |-> None])

\* every other voltage taken for vertical
v2pol_vertical_default(volts) ==
    IF volts = Str2("1", "3") THEN Str1("v")
    ELSE IF volts = Str2("1", "8") THEN Str1("h")
    ELSE Str1("v")

v2pol(volts) ==
    IF volts = Str2("1", "3") THEN Str1("v")
    ELSE IF volts = Str2("1", "8") THEN Str1("h")
    ELSE Str1("0")

\* the LNB types and the frequency offsets, in MHz
KU_BAND == "k"
C_BAND == "c"
UNIVERSAL == "u"

C_OFF == 5150
NA_KU_OFF == 10750
UN_LO_OFF == 9750
UN_HI_OFF == 10600
UN_HI_SW == 11700

abs(x) == IF x < 0 THEN -x ELSE x

\* the high band taken from the switch frequency itself on
freq_conv_from_switch(freq, lnb_type) ==
    IF lnb_type = KU_BAND THEN freq - NA_KU_OFF
    ELSE IF lnb_type = C_BAND THEN abs(freq - C_OFF)
    ELSE IF freq >= UN_HI_SW THEN freq - UN_HI_OFF
    ELSE freq - UN_LO_OFF

freq_conv(freq, lnb_type) ==
    IF lnb_type = KU_BAND THEN freq - NA_KU_OFF
    ELSE IF lnb_type = C_BAND THEN abs(freq - C_OFF)
    ELSE IF freq > UN_HI_SW THEN freq - UN_HI_OFF
    ELSE freq - UN_LO_OFF

\* the tone asked for whatever the LNB type
needs_tone_any_lnb(freq, lnb_type) == freq > UN_HI_SW

needs_tone(freq, lnb_type) ==
    IF lnb_type \in {KU_BAND, C_BAND} THEN FALSE ELSE freq > UN_HI_SW

\* ======================================================= ipc.py (pure)

xml_get_path(path) == <<Sym("empty", "get", <<<<"uri", path>>>>)>>

xml_put_path(path, subtree) ==
    <<OpA("put", <<<<"uri", path>>>>)>> \o subtree \o <<Cl("put")>>

\* s[-1] raises IndexError on the empty string
null_terminate(s) ==
    IF s = <<>> THEN Raise("IndexError")
    ELSE IF s[Len(s)] = NUL THEN Ret(s)
    ELSE Ret(s \o <<NUL>>)

\* str.encode('utf8') of a unicode string: every symbol of a unicode string
\* is encodable, the bytes are the same symbols
Encode(s) == s

\* bytes.decode('utf8'): fails on a byte that is not valid UTF-8
Decode(b) ==
    IF Contains(b, BAD) THEN Raise("UnicodeDecodeError") ELSE Ret(b)

\* lines 84-86 of read: strip one trailing NUL, then decode
ReadTail(data) ==
    IF data = <<>> THEN Raise("IndexError")
    ELSE IF data[Len(data)] = NUL THEN Decode(SubSeq(data, 1, Len(data) - 1))
    ELSE Decode(data)

\* the loop going on until the peer closes, terminator or not
ReadMoreUntilEof(idata) == idata # <<>>

\* the loop condition of read: idata and b'\0' not in idata
ReadMore(idata) == idata # <<>> /\ ~Contains(idata, NUL)

\* ------------------------------------------------ xml.etree.ElementTree
Element(sym) == [tag |-> sym.t, attrib |-> sym.a, text |-> None, kids |-> <<>>]

AddText(node, c) ==
    IF node.kids # <<>> THEN node    \* tail text of a child, never read
    ELSE [node EXCEPT !.text = IF node.text = None THEN <<c>>
                                 ELSE Append(node.text, c)]

AddKid(node, kid) == [node EXCEPT !.kids = Append(node.kids, kid)]

RECURSIVE ParseFrom(_, _, _, _)
\* ET.fromstring over the symbols toks[i..]: stack holds the open elements,
\* root the closed document element; the result is the root or "ParseError"
ParseFrom(toks, i, stack, root) ==
    IF i > Len(toks)
    THEN IF stack = <<>> /\ root # NoElem THEN Ret(root) ELSE Raise("ParseError")
    ELSE LET c == toks[i]
             n == Len(stack)
         IN  CASE c.k = "open" ->
                    IF root # NoElem THEN Raise("ParseError")
                    ELSE ParseFrom(toks, i + 1, Append(stack, Element(c)), root)
               [] c.k = "empty" ->
                    IF root # NoElem THEN Raise("ParseError")
                    ELSE IF n = 0 THEN ParseFrom(toks, i + 1, stack, Element(c))
                    ELSE ParseFrom(toks, i + 1,
                            [stack EXCEPT ![n] = AddKid(stack[n], Element(c))], root)
               [] c.k = "close" ->
                    IF n = 0 \/ stack[n].tag # c.t THEN Raise("ParseError")
                    ELSE IF n = 1 THEN ParseFrom(toks, i + 1, <<>>, stack[1])
                    ELSE ParseFrom(toks, i + 1,
                            [SubSeq(stack, 1, n - 1) EXCEPT
                                ![n - 1] = AddKid(stack[n - 1], stack[n])], root)
               [] c.k = "char" ->
                    IF n = 0 THEN Raise("ParseError")
                    ELSE ParseFrom(toks, i + 1,
                            [stack EXCEPT ![n] = AddText(stack[n], c)], root)
               [] OTHER -> Raise("ParseError")

fromstring(data) == ParseFrom(data, 1, <<>>, NoElem)

\* ONDDClient.parse: the root element, or NoElem on ET.ParseError
parse(data) ==
    LET r == fromstring(Encode(data)) IN IF IsRet(r) THEN r.v ELSE NoElem

RECURSIVE FindFrom(_, _, _)
FindFrom(kids, tag, i) ==
    IF i > Len(kids) THEN NoElem
    ELSE IF kids[i].tag = tag THEN kids[i] ELSE FindFrom(kids, tag, i + 1)

\* Element.find(tag): the first child with that tag, or NoElem
Find(node, tag) == FindFrom(node.kids, tag, 1)

RECURSIVE AttrFrom(_, _, _)
AttrFrom(attrib, key, i) ==
    IF i > Len(attrib) THEN None
    ELSE IF attrib[i][1] = key THEN attrib[i][2] ELSE AttrFrom(attrib, key, i + 1)

\* Element.get(key): the attribute value, or None
Get(node, key) == AttrFrom(node.attrib, key, 1)

RECURSIVE FindPathFrom(_, _, _)
\* the first element, in document order, that the steps of path lead to
\* from the elements kids[i..]; NoElem if there is none
FindPathFrom(kids, path, i) ==
    IF i > Len(kids) THEN NoElem
    ELSE IF kids[i].tag # Head(path) THEN FindPathFrom(kids, path, i + 1)
    ELSE IF Len(path) = 1 THEN kids[i]
    ELSE IF FindPathFrom(kids[i].kids, Tail(path), 1) # NoElem
    THEN FindPathFrom(kids[i].kids, Tail(path), 1)
    ELSE FindPathFrom(kids, path, i + 1)

\* Element.find(xpath) for a path 'a/b/c', given as the sequence of its tags
FindPath(node, path) == FindPathFrom(node.kids, path, 1)

\* root.find(xpath).text; AttributeError (root is None, or nothing found)
\* gives the default; a found element without text gives its text, None
get_text(root, xpath, default) ==
    IF root = NoElem THEN default
    ELSE IF FindPath(root, xpath) = NoElem THEN default
    ELSE FindPath(root, xpath).text

RECURSIVE DigitsValue(_, _, _)
DigitsValue(s, i, acc) ==
    IF i > Len(s) THEN acc
    ELSE DigitsValue(s, i + 1, acc * 10 + DigitVal(s[i].t))

AllDigits(s) == s # <<>> /\ \A i \in 1..Len(s) : s[i].k = "char" /\ s[i].t \in Digits

\* int(x) for a string x
int(x) == IF AllDigits(x) THEN Ret(DigitsValue(x, 1, 0)) ELSE Raise("ValueError")

\* int(text or 0)
IntOr0(text) == IF Truthy(text) THEN int(text) ELSE Ret(0)

RECURSIVE NormFloat(_, _)
\* the float num/den with den the least power of ten that represents it
NormFloat(num, den) ==
    IF den > 1 /\ num % 10 = 0 THEN NormFloat(num \div 10, den \div 10)
    ELSE [num |-> num, den |-> den]

\* float(x): TypeError for None, ValueError for text that is no number
float(x) ==
    IF x = None THEN Raise("TypeError")
    ELSE LET dot == IndexOf(x, Ch("."), 1)
             ip == IF dot = 0 THEN x ELSE SubSeq(x, 1, dot - 1)
             fp == IF dot = 0 THEN <<>> ELSE SubSeq(x, dot + 1, Len(x))
         IN  IF dot = 0
             THEN IF AllDigits(x) THEN Ret(NormFloat(DigitsValue(x, 1, 0), 1))
                  ELSE Raise("ValueError")
             ELSE IF (ip = <<>> \/ AllDigits(ip)) /\ (fp = <<>> \/ AllDigits(fp))
                     /\ (ip # <<>> \/ fp # <<>>)
                  THEN Ret(NormFloat(DigitsValue(ip \o fp, 1, 0), 10 ^ Len(fp)))
                  ELSE Raise("ValueError")

RECURSIVE LastIndexOf(_, _, _)
LastIndexOf(s, x, i) ==
    IF i = 0 THEN 0 ELSE IF s[i] = x THEN i ELSE LastIndexOf(s, x, i - 1)

\* os.path.basename: what follows the last '/'
basename(path) == SubSeq(path, LastIndexOf(path, Ch("/"), Len(path)) + 1, Len(path))

\* ------------------------------------------------ evaluation of sequences
RECURSIVE FirstRaise(_, _)
\* index of the first outcome of outs, from i on, that is an exception
FirstRaise(outs, i) ==
    IF i > Len(outs) THEN 0
    ELSE IF IsRaise(outs[i]) THEN i ELSE FirstRaise(outs, i + 1)

\* a list built element by element, left to right: the first exception
\* raised by an element ends the evaluation
ListOf(outs) ==
    IF FirstRaise(outs, 1) # 0 THEN outs[FirstRaise(outs, 1)]
    ELSE Ret([i \in 1..Len(outs) |-> outs[i].v])

RECURSIVE Flatten(_)
Flatten(ss) == IF ss = <<>> THEN <<>> ELSE Head(ss) \o Flatten(Tail(ss))

\* for x in node: iterating None raises TypeError
\* outs[i] is the outcome of the loop body for the i-th child of node
Iter(node, outs) ==
    IF node = NoElem THEN Raise("TypeError") ELSE ListOf(outs)

Kids(node) == 1..Len(node.kids)

\* ------------------------------------------------------- parse_transfer
\* the division with another stand-in for an unreported block_count
parse_transfer_unguarded(transfer) ==
    LET path == IF Truthy(get_text(transfer, <<"path">>, <<>>))
                THEN get_text(transfer, <<"path">>, <<>>) ELSE <<>>
        block_count == IntOr0(get_text(transfer, <<"block_count">>, <<>>))
        block_received == IntOr0(get_text(transfer, <<"block_received">>, <<>>))
        complete == get_text(transfer, <<"complete">>, <<>>) = YES
    IN  IF IsRaise(block_count) THEN block_count
        ELSE IF IsRaise(block_received) THEN block_received
        ELSE Ret([path |-> path,
                  filename |-> basename(path),
                  hash |-> get_text(transfer, <<"hash">>, <<>>),
                  block_count |-> block_count.v,
                  block_received |-> block_received.v,
                  percentage |->
                      IF complete THEN 100
                      ELSE (block_received.v * 100)
                           \div (IF block_count.v # 0 THEN block_count.v ELSE 100),
                  complete |-> complete])

parse_transfer(transfer) ==
    LET path == IF Truthy(get_text(transfer, <<"path">>, <<>>))
                THEN get_text(transfer, <<"path">>, <<>>) ELSE <<>>
        block_count == IntOr0(get_text(transfer, <<"block_count">>, <<>>))
        block_received == IntOr0(get_text(transfer, <<"block_received">>, <<>>))
        complete == get_text(transfer, <<"complete">>, <<>>) = YES
    IN  IF IsRaise(block_count) THEN block_count
        ELSE IF IsRaise(block_received) THEN block_received
        ELSE Ret([path |-> path,
                  filename |-> basename(path),
                  hash |-> get_text(transfer, <<"hash">>, <<>>),
                  block_count |-> block_count.v,
                  block_received |-> block_received.v,
                  percentage |->
                      IF complete THEN 100
                      ELSE (block_received.v * 100)
                           \div (IF block_count.v # 0 THEN block_count.v ELSE 1),
                  complete |-> complete])

\* ------------------------------------------------- ONDDClient accessors
\* each takes the root returned by query (an Element or NoElem)
StatusDefault ==
    [has_lock |-> FALSE, signal |-> 0, snr |-> NormFloat(0, 10), streams |-> <<>>]

StreamInfo(s) ==
    LET bitrate == IntOr0(get_text(s, <<"bitrate">>, <<>>))
    IN  IF IsRaise(bitrate) THEN bitrate
        ELSE Ret([id |-> get_text(s, <<"ident">>, <<>>), bitrate |-> bitrate.v])

get_status(root) ==
    IF root = NoElem THEN Ret(StatusDefault)
    ELSE LET tuner == Find(root, "tuner")
             streams == Find(root, "streams")
             signal == IntOr0(get_text(tuner, <<"signal">>, <<>>))
             snr == float(get_text(tuner, <<"snr">>, Str3("0", ".", "0")))
             strs == Iter(streams, [i \in Kids(streams) |-> StreamInfo(streams.kids[i])])
         IN  IF IsRaise(signal) THEN signal
             ELSE IF IsRaise(snr) THEN snr
             ELSE IF IsRaise(strs) THEN strs
             ELSE Ret([has_lock |-> get_text(tuner, <<"lock">>, <<>>) = YES,
                       signal |-> signal.v,
                       snr |-> snr.v,
                       streams |-> strs.v])

FileEntry(f) ==
    LET size == IntOr0(get_text(f, <<"size">>, <<>>))
    IN  IF IsRaise(size) THEN size
        ELSE Ret([path |-> get_text(f, <<"path">>, <<>>), size |-> size.v])

StreamFiles(s) ==
    Iter(Find(s, "files"),
         [i \in Kids(Find(s, "files")) |-> FileEntry(Find(s, "files").kids[i])])

get_file_list(root) ==
    IF root = NoElem THEN Ret(<<>>)
    ELSE IF Find(root, "streams") # NoElem
    THEN LET streams == Find(root, "streams")
             out == Iter(streams, [i \in Kids(streams) |-> StreamFiles(streams.kids[i])])
         IN  IF IsRaise(out) THEN out ELSE Ret(Flatten(out.v))
    ELSE Ret(<<>>)

CacheDefault == [used |-> 0, free |-> 0]

get_cache_storage(root) ==
    IF root = NoElem THEN Ret(CacheDefault)
    ELSE LET cache == Find(root, "cache")
             used == IntOr0(get_text(cache, <<"used">>, <<>>))
             free == IntOr0(get_text(cache, <<"free">>, <<>>))
         IN  IF IsRaise(used) THEN used
             ELSE IF IsRaise(free) THEN free
             ELSE Ret([used |-> used.v, free |-> free.v])

StreamTransfers(stream) ==
    Iter(Find(stream, "transfers"),
         [i \in Kids(Find(stream, "transfers")) |->
             parse_transfer(Find(stream, "transfers").kids[i])])

get_transfers(root) ==
    IF root = NoElem THEN Ret(<<>>)
    ELSE IF Find(root, "streams") # NoElem
    THEN LET streams == Find(root, "streams")
             out == Iter(streams,
                         [i \in Kids(streams) |-> StreamTransfers(streams.kids[i])])
         IN  IF IsRaise(out) THEN out ELSE Ret(Flatten(out.v))
    ELSE Ret(<<>>)

SettingsDefault ==
    [frequency |-> 0, delivery |-> <<>>, modulation |-> <<>>,
     polarization |-> <<>>, tone |-> FALSE, azimuth |-> 0]

get_settings(root) ==
    IF root = NoElem THEN Ret(SettingsDefault)
    ELSE LET tuner == Find(root, "tuner")
             frequency == IntOr0(get_text(tuner, <<"frequency">>, <<>>))
             azimuth == IntOr0(get_text(tuner, <<"azimuth">>, <<>>))
         IN  IF IsRaise(frequency) THEN frequency
             ELSE IF IsRaise(azimuth) THEN azimuth
             ELSE Ret([frequency |-> frequency.v,
                       delivery |-> get_text(tuner, <<"delivery">>, <<>>),
                       modulation |-> get_text(tuner, <<"modulation">>, <<>>),
                       polarization |-> v2pol(get_text(tuner, <<"voltage">>, <<>>)),
                       tone |-> get_text(tuner, <<"tone">>, <<>>) = YES,
                       azimuth |-> azimuth.v])

\* set_settings and set_output_path, after the query
set_response(resp) ==
    IF resp = NoElem THEN Ret(ONDD_BAD_RESPONSE_CODE) ELSE Ret(Get(resp, "code"))

get_output_path(resp) ==
    IF resp = NoElem THEN Ret(None) ELSE Ret(Get(resp, "path"))

EventDict(e) == Ret(xml2dict(e))

get_events(root) ==
    IF root = NoElem THEN Ret(<<>>)
    ELSE IF Find(root, "events") # NoElem
    THEN LET events == Find(root, "events")
         IN  Iter(events, [i \in Kids(events) |-> EventDict(events.kids[i])])
    ELSE Ret(<<>>)

\* =============================================== the daemon's responses
El(tag, body) == <<Op(tag)>> \o body \o <<Cl(tag)>>
ElA(tag, attrs) == <<OpA(tag, attrs), Cl(tag)>>
Cat(A, B) == {a \o b : a \in A, b \in B}
Wrap(tag, S) == {El(tag, b) : b \in S}

StatusDocs ==
    Wrap("response",
      Cat({El("tuner", El("lock", YES) \o El("signal", Str1("7"))
                       \o El("snr", Str3("0", ".", "5")))},
          {<<>>,
           El("streams", El("stream", El("ident", Str1("a"))
                                      \o El("bitrate", Str2("1", "3"))))})
      \cup
      Cat({<<>>,
           El("tuner", <<>>),
           El("tuner", El("signal", Str1("x"))),
           El("tuner", El("snr", <<>>))},
          {<<>>,
           El("streams", <<>>),
           El("streams", El("stream", <<>>))}))

SettingsDocs ==
    Wrap("response",
      {<<>>,
       El("tuner", <<>>),
       El("tuner", El("frequency", Str1("7")) \o El("delivery", Str1("dvb-s"))
                   \o El("modulation", Str1("qpsk")) \o El("voltage", Str2("1", "3"))
                   \o El("tone", YES) \o El("azimuth", Str1("5"))),
       El("tuner", El("voltage", Str2("1", "8")) \o El("tone", NO)),
       El("tuner", El("voltage", Str1("5"))),
       El("tuner", El("delivery", <<>>)),
       El("tuner", El("frequency", Str1("x")))})

CacheDocs ==
    Wrap("response",
      {<<>>,
       El("cache", <<>>),
       El("cache", El("used", Str1("7")) \o El("free", Str2("1", "3"))),
       El("cache", El("used", Str1("x")))})

FileDocs ==
    Wrap("response",
      {<<>>,
       El("streams", <<>>),
       El("streams", El("stream", <<>>)),
       El("streams", El("stream", El("files", <<>>))),
       El("streams", El("stream", El("files",
            El("file", El("path", Str3("foo", "/", "bar")) \o El("size", Str1("7")))
            \o El("file", <<>>)))),
       El("streams", El("stream", El("files", El("file", El("size", Str1("x"))))))})

TransferDocs ==
    Wrap("response",
      {<<>>,
       El("streams", <<>>),
       El("streams", El("stream", <<>>)),
       El("streams", El("stream", El("transfers", <<>>))),
       El("streams", El("stream", El("transfers", El("transfer", <<>>)))),
       El("streams", El("stream", El("transfers",
            El("transfer", El("path", Str3("foo", "/", "bar")) \o El("hash", Str1("a"))
                           \o El("block_count", Str2("1", "0"))
                           \o El("block_received", Str1("2"))
                           \o El("complete", NO))))),
       El("streams", El("stream", El("transfers",
            El("transfer", El("block_count", Str1("3"))
                           \o El("block_received", Str1("7"))
                           \o El("complete", YES))
            \o El("transfer", El("block_received", Str1("7")))))),
       El("streams", El("stream", El("transfers",
            El("transfer", El("block_count", Str1("x"))))))})

EventDocs ==
    Wrap("response",
      {<<>>,
       El("events", <<>>),
       El("events", El("event", <<>>)),
       El("events", El("event", El("type", Str1("a")) \o El("file", <<>>)))})

PutDocs ==
    {ElA("response", <<<<"code", Str3("2", "0", "0")>>>>),
     ElA("response", <<<<"code", ONDD_BAD_RESPONSE_CODE>>>>),
     ElA("response", <<>>)}

OutputDocs ==
    {ElA("response", <<<<"path", Str1("/tmp")>>>>),
     ElA("response", <<>>)}

RECURSIVE SeqsUpTo(_, _)
\* the sequences over S of length at most n
SeqsUpTo(S, n) ==
    IF n = 0 THEN {<<>>}
    ELSE SeqsUpTo(S, n - 1)
         \cup {Append(q, x) : q \in {r \in SeqsUpTo(S, n - 1) : Len(r) = n - 1}, x \in S}

\* arbitrary byte streams: a text byte, the terminator, an invalid byte
RawWires == SeqsUpTo({Ch("a"), NUL, BAD}, MaxWire)

Terminated(S) == {d \o <<NUL>> : d \in S} \cup {<<NUL>>}

\* =============================================================== state
GetOps == {"get_status", "get_settings", "get_file_list", "get_transfers",
           "get_cache_storage", "get_output_path", "get_events"}
PutOps == {"set_settings", "set_output_path"}
QueryOps == GetOps \cup PutOps
ClientOps == QueryOps \cup {"ping"}
Ops == ClientOps \cup {"send"}

\* the stream of test_read: a, b, c, d and the terminator, then e and f
ReadTestWire == <<Ch("a"), Ch("b"), Ch("c"), Ch("d"), NUL, Ch("e"), Ch("f")>>

\* what the peer will put on the wire once the connection is accepted
Wires(o) ==
    CASE o = "send" -> RawWires \cup {ReadTestWire}
      [] o = "ping" -> {<<>>}
      [] o = "get_status" -> Terminated(StatusDocs)
      [] o = "get_settings" -> Terminated(SettingsDocs)
      [] o = "get_file_list" -> Terminated(FileDocs)
      [] o = "get_transfers" -> Terminated(TransferDocs)
      [] o = "get_cache_storage" -> Terminated(CacheDocs)
      [] o = "get_output_path" -> Terminated(OutputDocs)
      [] o = "get_events" -> Terminated(EventDocs)
      [] OTHER -> Terminated(PutDocs)

\* the keyword dictionary with tone passed on as the boolean it came as
SettingsKwBoolTone(frequency, symbolrate, delivery, modulation, tone, voltage, azimuth) ==
    << <<"tone", PyBool(tone)>>,
       <<"frequency", PyInt(frequency)>>,
       <<"symbolrate", PyInt(symbolrate)>>,
       <<"delivery", PyStr(delivery)>>,
       <<"modulation", PyStr(modulation)>>,
       <<"voltage", PyInt(voltage)>>,
       <<"azimuth", PyInt(azimuth)>> >>

\* set_settings(frequency, symbolrate, delivery, modulation, tone, voltage,
\* azimuth): the keyword dictionary, in the order the call writes it
SettingsKw(frequency, symbolrate, delivery, modulation, tone, voltage, azimuth) ==
    << <<"tone", PyStr(IF tone THEN YES ELSE NO)>>,
       <<"frequency", PyInt(frequency)>>,
       <<"symbolrate", PyInt(symbolrate)>>,
       <<"delivery", PyStr(delivery)>>,
       <<"modulation", PyStr(modulation)>>,
       <<"voltage", PyInt(voltage)>>,
       <<"azimuth", PyInt(azimuth)>> >>

\* set_settings, line 281: the request it hands to query
SettingsPayload(frequency, symbolrate, delivery, modulation, tone, voltage, azimuth) ==
    xml_put_path(Str1("/settings"),
                 kw2xml(SettingsKw(frequency, symbolrate, delivery, modulation,
                                   tone, voltage, azimuth)))

\* the payloads the callers hand to send
Payloads(o) ==
    CASE o = "send" -> {Str1("a")}
      [] o = "ping" -> {<<>>}
      [] o = "get_status" -> {xml_get_path(Str1("/status"))}
      [] o = "get_settings" -> {xml_get_path(Str1("/settings"))}
      [] o = "get_file_list" -> {xml_get_path(Str1("/signaling/"))}
      [] o = "get_transfers" -> {xml_get_path(Str1("/transfers"))}
      [] o = "get_cache_storage" -> {xml_get_path(Str1("/cache-storage"))}
      [] o = "get_output_path" -> {xml_get_path(Str1("/output"))}
      [] o = "get_events" -> {xml_get_path(Str1("/events"))}
      [] o = "set_settings" ->
            {SettingsPayload(11471, 27500, Str1("dvb-s"), Str1("qpsk"),
                             tone, 13, 0) : tone \in BOOLEAN}
      [] OTHER -> {xml_put_path(Str1("/output"), kw2xml(<< <<"path", PyStr(Str1("/tmp"))>> >>))}

\* what an accessor makes of the root that query returned
Accessor(o, root) ==
    CASE o = "get_status" -> get_status(root)
      [] o = "get_settings" -> get_settings(root)
      [] o = "get_file_list" -> get_file_list(root)
      [] o = "get_transfers" -> get_transfers(root)
      [] o = "get_cache_storage" -> get_cache_storage(root)
      [] o = "get_output_path" -> get_output_path(root)
      [] o = "get_events" -> get_events(root)
      [] OTHER -> set_response(root)

VARIABLES
    pc,        \* position of the running call: idle, nullterm, socket,
               \* settimeout, connect, send, recv, tail, shutdown, close,
               \* handler, query, done
    op,        \* the operation being executed
    payload,   \* the payload argument of send
    bytes,     \* the encoded, NUL-terminated payload
    calls,     \* number of calls started
    socks,     \* every socket created so far
    sock,      \* index in socks of the running call's socket, 0 if none
    wire,      \* what the peer has still to deliver
    rcvd,      \* everything the peer has delivered to this call
    eof,       \* a zero-length chunk was delivered
    idata,     \* read: the last chunk
    data,      \* read: the accumulated data
    exc,       \* the exception in flight, "none" if none
    readRet,   \* outcome of read
    sendRet,   \* outcome of send
    root,      \* what query returned
    result,    \* outcome of the operation
    cnt,       \* the socket and parser calls of the running call, and the
               \* phase in which a socket call of it failed first
    fnapp      \* a function of the library applied on its own: its name,
               \* its arguments and, once applied, what it gave

vars == <<pc, op, payload, bytes, calls, socks, sock, wire, rcvd, eof, idata,
          data, exc, readRet, sendRet, root, result, cnt, fnapp>>

\* the variables of a client call
clientVars == <<pc, op, payload, bytes, calls, socks, sock, wire, rcvd, eof,
                idata, data, exc, readRet, sendRet, root, result, cnt>>

ZeroCnt == [sockets |-> 0, connects |-> 0, connected |-> FALSE, sends |-> 0, recvs |-> 0,
            shutdowns |-> 0, closes |-> 0, parses |-> 0, sent |-> <<>>,
            lastbuf |-> 0, failed |-> "none",
            waited |-> 0]      \* seconds read has spent blocked in recv

\* no function is being applied on its own
NoApp == [fn |-> "none", arg |-> None, done |-> FALSE, out |-> None]

\* the client before its first call
ClientInit ==
    /\ pc = "idle"
    /\ op = "none"
    /\ payload = <<>>
    /\ bytes = <<>>
    /\ calls = 0
    /\ socks = <<>>
    /\ sock = 0
    /\ wire = <<>>
    /\ rcvd = <<>>
    /\ eof = FALSE
    /\ idata = <<>>
    /\ data = <<>>
    /\ exc = "none"
    /\ readRet = NoOutcome
    /\ sendRet = NoOutcome
    /\ root = NoElem
    /\ result = NoOutcome
    /\ cnt = ZeroCnt

Init ==
    /\ ClientInit
    /\ fnapp = NoApp

\* ============================================================= actions
\* a caller starts an operation; the per-call state starts afresh
Call(o, p) ==
    /\ pc \in {"idle", "done"}
    /\ calls < MaxCalls
    /\ pc' = IF o = "ping" THEN "socket" ELSE "nullterm"
    /\ op' = o
    /\ payload' = p
    /\ bytes' = <<>>
    /\ calls' = calls + 1
    /\ sock' = 0
    /\ wire' = <<>>
    /\ rcvd' = <<>>
    /\ eof' = FALSE
    /\ idata' = <<>>
    /\ data' = <<>>
    /\ exc' = "none"
    /\ readRet' = NoOutcome
    /\ sendRet' = NoOutcome
    /\ root' = NoElem
    /\ result' = NoOutcome
    /\ cnt' = ZeroCnt
    /\ UNCHANGED <<fnapp, socks>>

\* send, line 111: payload = null_terminate(payload).encode(OUT_ENCODING);
\* an exception here is outside the try and leaves send and its caller
NullTerminate ==
    /\ pc = "nullterm"
    /\ LET t == null_terminate(payload)
       IN  IF IsRaise(t)
           THEN /\ pc' = "done"
                /\ exc' = t.v
                /\ sendRet' = t
                /\ result' = t
                /\ UNCHANGED bytes
           ELSE /\ pc' = "socket"
                /\ bytes' = Encode(t.v)
                /\ UNCHANGED <<exc, sendRet, result>>
    /\ UNCHANGED <<fnapp, op, payload, calls, socks, sock, wire, rcvd, eof, idata,
                   data, readRet, root, cnt>>

\* prepare_socket, line 56: sock = socket.socket(socket.AF_UNIX)
SocketNew ==
    /\ pc = "socket"
    /\ socks' = Append(socks, [owner |-> calls, open |-> TRUE,
                               timeout |-> 0])    \* None: block for ever
    /\ sock' = Len(socks) + 1
    /\ cnt' = [cnt EXCEPT !.sockets = @ + 1]
    /\ pc' = "settimeout"
    /\ UNCHANGED <<fnapp, op, payload, bytes, calls, wire, rcvd, eof, idata, data,
                   exc, readRet, sendRet, root, result>>

\* prepare_socket going on to connect with the socket as it was created
SetTimeoutLeftOut ==
    /\ pc = "settimeout"
    /\ pc' = "connect"
    /\ UNCHANGED <<fnapp, op, payload, bytes, calls, socks, sock, wire, rcvd, eof,
                   idata, data, exc, readRet, sendRet, root, result, cnt>>

\* prepare_socket, line 57: sock.settimeout(ONDD_SOCKET_TIMEOUT)
SetTimeout ==
    /\ pc = "settimeout"
    /\ socks' = [socks EXCEPT ![sock].timeout = ONDD_SOCKET_TIMEOUT]
    /\ pc' = "connect"
    /\ UNCHANGED <<fnapp, op, payload, bytes, calls, sock, wire, rcvd, eof, idata,
                   data, exc, readRet, sendRet, root, result, cnt>>

\* prepare_socket, line 58: the daemon accepts the connection; connect
\* yields the socket and the body of the with statement starts (the body of
\* ping is "return True", which leaves the with statement at once)
ConnectOk(w) ==
    /\ pc = "connect"
    /\ cnt' = [cnt EXCEPT !.connects = @ + 1, !.connected = TRUE]
    /\ wire' = w
    /\ pc' = IF op = "ping" THEN "shutdown" ELSE "send"
    /\ UNCHANGED <<fnapp, op, payload, bytes, calls, socks, sock, rcvd, eof, idata,
                   data, exc, readRet, sendRet, root, result>>

\* prepare_socket, line 58: connecting is refused or times out; the error
\* leaves connect before its try statement is entered
ConnectFail(e) ==
    /\ pc = "connect"
    /\ cnt' = [cnt EXCEPT !.connects = @ + 1, !.failed = "connect"]
    /\ exc' = e
    /\ pc' = "handler"
    /\ UNCHANGED <<fnapp, op, payload, bytes, calls, socks, sock, wire, rcvd, eof,
                   idata, data, readRet, sendRet, root, result>>

\* send, line 115: sock.send(payload); socket.send writes as many of the
\* bytes as the peer takes, the first n, and returns n, which send ignores
SockSendOk(n) ==
    /\ pc = "send"
    /\ n \in 1..Len(bytes)
    /\ cnt' = [cnt EXCEPT !.sends = @ + 1, !.sent = SubSeq(bytes, 1, n)]
    /\ pc' = "recv"
    /\ UNCHANGED <<fnapp, op, payload, bytes, calls, socks, sock, wire, rcvd, eof,
                   idata, data, exc, readRet, sendRet, root, result>>

SockSendFail(e) ==
    /\ pc = "send"
    /\ cnt' = [cnt EXCEPT !.sends = @ + 1, !.failed = "send"]
    /\ exc' = e
    /\ pc' = "shutdown"
    /\ UNCHANGED <<fnapp, op, payload, bytes, calls, socks, sock, wire, rcvd, eof,
                   idata, data, readRet, sendRet, root, result>>

\* read, lines 80-83: one sock.recv(buffsize) that returns chunk after
\* blocking for w seconds; the first one sets idata and data, the later
\* ones set idata and extend data
RecvStep(chunk, w) ==
    /\ idata' = chunk
    /\ data' = IF cnt.recvs = 0 THEN chunk ELSE data \o chunk
    /\ cnt' = [cnt EXCEPT !.recvs = @ + 1, !.lastbuf = BUFFSIZE,
                           !.waited = @ + w]
    /\ pc' = IF ReadMore(chunk) THEN "recv" ELSE "tail"
    /\ UNCHANGED <<fnapp, op, payload, bytes, calls, socks, sock, exc, readRet,
                   sendRet, root, result>>

\* the peer delivers the next n symbols of its response, w seconds after
\* recv was called; prepare_socket, line 57, makes every blocking call of
\* the socket give up after its timeout, so w stays below it
Recv(n, w) ==
    /\ pc = "recv"
    /\ n <= Len(wire)
    /\ socks[sock].timeout = 0 \/ w < socks[sock].timeout
    /\ RecvStep(SubSeq(wire, 1, n), w)
    /\ wire' = SubSeq(wire, n + 1, Len(wire))
    /\ rcvd' = rcvd \o SubSeq(wire, 1, n)
    /\ UNCHANGED eof

\* the peer has closed the connection: recv returns the empty string
RecvEof ==
    /\ pc = "recv"
    /\ RecvStep(<<>>, 0)
    /\ eof' = TRUE
    /\ UNCHANGED <<wire, rcvd>>

\* recv raises a socket error, or times out while the peer stays silent
RecvFail(e) ==
    /\ pc = "recv"
    /\ cnt' = [cnt EXCEPT !.recvs = @ + 1, !.lastbuf = BUFFSIZE,
                           !.failed = "recv",
                           !.waited = @ + (IF e = "socket.timeout"
                                           THEN socks[sock].timeout ELSE 0)]
    /\ exc' = e
    /\ pc' = "shutdown"
    /\ UNCHANGED <<fnapp, op, payload, bytes, calls, socks, sock, wire, rcvd, eof,
                   idata, data, readRet, sendRet, root, result>>

\* read, lines 84-86: strip the terminator, decode, return
ReadReturn ==
    /\ pc = "tail"
    /\ readRet' = ReadTail(data)
    /\ exc' = IF IsRaise(ReadTail(data)) THEN ReadTail(data).v ELSE exc
    /\ pc' = "shutdown"
    /\ UNCHANGED <<fnapp, op, payload, bytes, calls, socks, sock, wire, rcvd, eof,
                   idata, data, sendRet, root, result, cnt>>

\* connect, line 69: sock.shutdown(socket.SHUT_RDWR) in the finally clause
ShutdownOk ==
    /\ pc = "shutdown"
    /\ cnt' = [cnt EXCEPT !.shutdowns = @ + 1]
    /\ pc' = "close"
    /\ UNCHANGED <<fnapp, op, payload, bytes, calls, socks, sock, wire, rcvd, eof,
                   idata, data, exc, readRet, sendRet, root, result>>

\* connect, line 69: shutdown raises (the peer is gone); the error leaves
\* the finally clause, in place of the exception of the body if there is one
ShutdownFail ==
    /\ pc = "shutdown"
    /\ cnt' = [cnt EXCEPT !.shutdowns = @ + 1]
    /\ exc' = "socket.error"
    /\ pc' = "handler"
    /\ UNCHANGED <<fnapp, op, payload, bytes, calls, socks, sock, wire, rcvd, eof,
                   idata, data, readRet, sendRet, root, result>>

\* connect, line 70: sock.close()
Close ==
    /\ pc = "close"
    /\ socks' = [socks EXCEPT ![sock].open = FALSE]
    /\ cnt' = [cnt EXCEPT !.closes = @ + 1]
    /\ pc' = "handler"
    /\ UNCHANGED <<fnapp, op, payload, bytes, calls, sock, wire, rcvd, eof, idata,
                   data, exc, readRet, sendRet, root, result>>

\* ping without its except clause
ping_no_except ==
    IF exc = "none" THEN Ret(TRUE) ELSE Raise(exc)

\* ping, lines 148-153: True from the body, False from the except clause
ping ==
    IF exc \in SocketErrors THEN Ret(FALSE)
    ELSE IF exc = "none" THEN Ret(TRUE)
    ELSE Raise(exc)

PingReturn ==
    /\ pc = "handler"
    /\ op = "ping"
    /\ result' = ping
    /\ exc' = IF IsRaise(ping) THEN exc ELSE "none"
    /\ pc' = "done"
    /\ UNCHANGED <<fnapp, op, payload, bytes, calls, socks, sock, wire, rcvd, eof,
                   idata, data, readRet, sendRet, root, cnt>>

\* send whose except clause lets a timeout through
send_timeout_escapes ==
    IF exc = "socket.error" THEN Ret(None)
    ELSE IF exc = "none" THEN Ret(readRet.v)
    ELSE Raise(exc)

\* send, lines 113-120: None from the except clause, data from the else
\* clause, any other exception goes on to the caller
send ==
    IF exc \in SocketErrors THEN Ret(None)
    ELSE IF exc = "none" THEN Ret(readRet.v)
    ELSE Raise(exc)

\* send returns to query or, called directly, to its caller; an exception
\* that send lets through leaves query and the accessor as well
SendReturn ==
    /\ pc = "handler"
    /\ op # "ping"
    /\ sendRet' = send
    /\ exc' = IF IsRaise(send) THEN exc ELSE "none"
    /\ IF op = "send" \/ IsRaise(send)
       THEN /\ result' = send
            /\ pc' = "done"
       ELSE /\ pc' = "query"
            /\ UNCHANGED result
    /\ UNCHANGED <<fnapp, op, payload, bytes, calls, socks, sock, wire, rcvd, eof,
                   idata, data, readRet, root, cnt>>

\* query that tests "data is not None" where the code tests "data"
query_parses_empty(d) ==
    IF d # None THEN [root |-> parse(d), parses |-> 1]
    ELSE [root |-> NoElem, parses |-> 0]

\* query, lines 169-173: parse only data that is not empty; parses tells
\* how many times parse was called
query(d) ==
    IF Truthy(d) THEN [root |-> parse(d), parses |-> 1]
    ELSE [root |-> NoElem, parses |-> 0]

\* the accessor, from the return of send on: query, then the shaping
QueryReturn ==
    /\ pc = "query"
    /\ root' = query(sendRet.v).root
    /\ cnt' = [cnt EXCEPT !.parses = @ + query(sendRet.v).parses]
    /\ result' = Accessor(op, query(sendRet.v).root)
    /\ exc' = IF IsRaise(Accessor(op, query(sendRet.v).root))
              THEN Accessor(op, query(sendRet.v).root).v ELSE "none"
    /\ pc' = "done"
    /\ UNCHANGED <<fnapp, op, payload, bytes, calls, socks, sock, wire, rcvd, eof,
                   idata, data, readRet, sendRet>>

\* the interpreter finalises a socket object that nothing refers to any
\* more: after the call, at a moment the program does not control
Finalize(i) ==
    /\ i \in 1..Len(socks)
    /\ socks[i].open
    /\ pc = "done"
    /\ socks' = [socks EXCEPT ![i].open = FALSE]
    /\ UNCHANGED <<fnapp, pc, op, payload, bytes, calls, sock, wire, rcvd, eof, idata,
                   data, exc, readRet, sendRet, root, result, cnt>>

Next ==
    \/ \E o \in Ops : \E p \in Payloads(o) : Call(o, p)
    \/ NullTerminate
    \/ SocketNew
    \/ SetTimeout
    \/ \E w \in Wires(op) : ConnectOk(w)
    \/ \E e \in SocketErrors : ConnectFail(e)
    \/ \E n \in {Len(bytes)} : SockSendOk(n)
    \/ \E e \in SocketErrors : SockSendFail(e)
    \/ \E n \in 1..MaxChunk : Recv(n, 0)
    \/ RecvEof
    \/ \E e \in SocketErrors : RecvFail(e)
    \/ ReadReturn
    \/ ShutdownOk
    \/ ShutdownFail
    \/ Close
    \/ PingReturn
    \/ SendReturn
    \/ QueryReturn
    \/ \E i \in 1..MaxCalls : Finalize(i)

Spec == Init /\ [][Next]_vars

\* ----------------------------------------------------- the slow daemon
\* Spec lets the daemon take the whole payload in one sock.send and lets
\* every successful recv return at once.  SpecTimed follows the calls of
\* send against a daemon that may also take only the first bytes of the
\* payload and let each recv wait, for any time the socket timeout allows.
SlowWaits == {0, ONDD_SOCKET_TIMEOUT - 1}

\* the empty payload, and one that the caller has terminated already
EdgePayloads == {<<>>, <<Ch("a"), NUL>>}

NextTimed ==
    \/ \E p \in Payloads("send") \cup EdgePayloads : Call("send", p)
    \/ NullTerminate
    \/ SocketNew
    \/ SetTimeout
    \/ \E w \in Wires(op) : ConnectOk(w)
    \/ \E e \in SocketErrors : ConnectFail(e)
    \/ \E n \in 1..Len(bytes) : SockSendOk(n)
    \/ \E e \in SocketErrors : SockSendFail(e)
    \/ \E n \in 1..MaxChunk : \E w \in SlowWaits : Recv(n, w)
    \/ RecvEof
    \/ \E e \in SocketErrors : RecvFail(e)
    \/ ReadReturn
    \/ ShutdownOk
    \/ ShutdownFail
    \/ Close
    \/ SendReturn
    \/ \E i \in 1..MaxCalls : Finalize(i)

SpecTimed == Init /\ [][NextTimed]_vars

\* ------------------------------------------- the functions on their own
\* SpecFn applies one function of the library to one input: InitFn draws
\* the function and its arguments, the action of the function applies it.
InitApp(f, a) ==
    /\ ClientInit
    /\ fnapp = [fn |-> f, arg |-> a, done |-> FALSE, out |-> None]

Apply(f, out) ==
    /\ fnapp.fn = f
    /\ ~fnapp.done
    /\ fnapp' = [fnapp EXCEPT !.done = TRUE, !.out = out]
    /\ UNCHANGED clientVars

\* the text of a count a transfer node reports: None when the daemon
\* leaves the element out
CountTexts == {None} \cup {IntStr(n) : n \in 0..MaxBlocks} \cup {Str2("1", "0")}
CompleteTexts == {None, YES, NO}

Field(tag, text) == IF text = None THEN <<>> ELSE El(tag, text)

\* the <transfer> element the daemon reports for these three texts
TransferNode(block_count, block_received, complete) ==
    fromstring(El("transfer", Field("block_count", block_count)
                              \o Field("block_received", block_received)
                              \o Field("complete", complete))).v

TransferArgs ==
    {[block_count |-> bc, block_received |-> br, complete |-> c] :
        bc \in CountTexts, br \in CountTexts, c \in CompleteTexts}

ApplyParseTransfer ==
    Apply("parse_transfer",
          parse_transfer(TransferNode(fnapp.arg.block_count,
                                      fnapp.arg.block_received,
                                      fnapp.arg.complete)))

\* the frequencies tried: those within MaxDelta of an offset or of the
\* switch frequency, and those of the examples
Freqs ==
    UNION {(b - MaxDelta)..(b + MaxDelta) :
              b \in {0, C_OFF, UN_LO_OFF, UN_HI_OFF, NA_KU_OFF, UN_HI_SW}}
        \cup {11471, 11500, 11800}

FreqArgs ==
    {[freq |-> f, lnb_type |-> l] :
        f \in Freqs, l \in {KU_BAND, C_BAND, UNIVERSAL}}

ApplyFreqConv ==
    Apply("freq_conv", freq_conv(fnapp.arg.freq, fnapp.arg.lnb_type))

ApplyNeedsTone ==
    Apply("needs_tone", needs_tone(fnapp.arg.freq, fnapp.arg.lnb_type))

\* keyword arguments of the kinds the callers and the tests pass
KwPool ==
    {<<"foo", PyStr(Str1("bar"))>>, <<"bar", PyStr(Str1("baz"))>>,
     <<"baz", PyInt(1)>>, <<"num", PyInt(27500)>>, <<"path", PyStr(<<>>)>>}

\* kwargs.items(): up to MaxFields fields, each key once, in any order
KwArgs ==
    {kw \in SeqsUpTo(KwPool, MaxFields) :
        \A i, j \in 1..Len(kw) : i # j => kw[i][1] # kw[j][1]}

ApplyKw2xml == Apply("kw2xml", kw2xml(fnapp.arg))

SettingsArgs ==
    [frequency : {0, 11471}, symbolrate : {27500},
     delivery : {Str1("dvb-s"), Str1("dvb-s2")},
     modulation : {Str1("qpsk"), Str1("8psk")},
     tone : BOOLEAN, voltage : {13, 18}, azimuth : {0, 5}]

ApplySetSettings ==
    Apply("set_settings",
          SettingsPayload(fnapp.arg.frequency, fnapp.arg.symbolrate,
                          fnapp.arg.delivery, fnapp.arg.modulation,
                          fnapp.arg.tone, fnapp.arg.voltage, fnapp.arg.azimuth))

\* the voltage texts tried: None when there is no text to read
VoltTexts ==
    {None, <<>>} \cup SeqsUpTo({Ch("1"), Ch("3"), Ch("8")}, MaxVolt)
        \cup {Str2("1", "5"), Str2("1", "2"), Str2("1", "9")}

ApplyV2pol == Apply("v2pol", v2pol(fnapp.arg))

\* the root of a settings response: with or without a tuner element, the
\* tuner with or without a voltage element
SettingsNode(tuner, voltage) ==
    fromstring(El("response",
        IF tuner
        THEN El("tuner", El("frequency", Str1("7")) \o Field("voltage", voltage)
                         \o El("tone", YES))
        ELSE <<>>)).v

SettingsNodeArgs == [tuner : BOOLEAN, voltage : VoltTexts]

ApplyGetSettings ==
    Apply("get_settings",
          get_settings(SettingsNode(fnapp.arg.tuner, fnapp.arg.voltage)))

\* the payload strings tried: text with and without NUL, the empty one
PayloadStrings == SeqsUpTo({Ch("a"), NUL}, MaxPayload)

ApplyNullTerminate == Apply("null_terminate", null_terminate(fnapp.arg))

\* the documents get_text is tried on: those of test_get_text, and others
\* in which a step matches nothing, a later node only, or a node without text
TextDocs ==
    {El("root", <<>>),
     El("root", El("foo", El("bar", Str1("1")))),
     El("root", El("bar", Str1("1")) \o El("foo", El("bar", Str1("2")))),
     El("root", El("foo", <<>>) \o El("foo", El("bar", Str1("2")))),
     El("root", El("foo", <<Sym("empty", "bar", <<>>)>>)),
     El("root", El("foo", El("bar", <<>>) \o El("bar", Str1("3")))),
     El("root", El("foo", Str1("4")) \o El("foo", Str1("5")))}

TextPaths == {<<"foo", "bar">>, <<"foo">>, <<"bar">>, <<"baz">>}

\* doc is the markup of the root, or None for a call without a root
TextArgs ==
    [doc : TextDocs \cup {None}, xpath : TextPaths, default : {<<>>, Str1("d")}]

TextRoot(doc) == IF doc = None THEN NoElem ELSE fromstring(doc).v

ApplyGetText ==
    Apply("get_text",
          get_text(TextRoot(fnapp.arg.doc), fnapp.arg.xpath, fnapp.arg.default))

\* both functions asked about one frequency of a Universal LNB
ApplyUniversalBand ==
    Apply("universal_band",
          [conv |-> freq_conv(fnapp.arg.freq, UNIVERSAL),
           tone |-> needs_tone(fnapp.arg.freq, UNIVERSAL)])

InitFn ==
    \/ \E a \in TransferArgs : InitApp("parse_transfer", a)
    \/ \E f \in Freqs : InitApp("universal_band", [freq |-> f])
    \/ \E a \in TextArgs : InitApp("get_text", a)
    \/ \E a \in PayloadStrings : InitApp("null_terminate", a)
    \/ \E a \in VoltTexts : InitApp("v2pol", a)
    \/ \E a \in SettingsNodeArgs : InitApp("get_settings", a)
    \/ \E a \in KwArgs : InitApp("kw2xml", a)
    \/ \E a \in SettingsArgs : InitApp("set_settings", a)
    \/ \E a \in FreqArgs : InitApp("freq_conv", a)
    \/ \E a \in FreqArgs : InitApp("needs_tone", a)

NextFn ==
    \/ ApplyParseTransfer
    \/ ApplyUniversalBand
    \/ ApplyGetText
    \/ ApplyNullTerminate
    \/ ApplyV2pol
    \/ ApplyGetSettings
    \/ ApplyKw2xml
    \/ ApplySetSettings
    \/ ApplyFreqConv
    \/ ApplyNeedsTone

SpecFn == InitFn /\ [][NextFn]_vars

\* ============================================================== claims
Done == pc = "done"
Returns(o, v) == IsRet(o) /\ o.v = v
OwnSocks == {i \in 1..Len(socks) : socks[i].owner = calls}

\* the prefix of s that precedes its first NUL (all of s if it has none)
BeforeNul(s) ==
    IF Contains(s, NUL) THEN SubSeq(s, 1, IndexOf(s, NUL, 1) - 1) ELSE s

\* C1: every ONDDClient operation ends by returning a value, whatever the
\* daemon does; no exception reaches the caller.
C1_NeverThrows == (Done /\ op \in ClientOps) => IsRet(result)

\* the documented all-default value of each get accessor
DocumentedDefault(o) ==
    CASE o = "get_status" ->
            [has_lock |-> FALSE, signal |-> 0, snr |-> [num |-> 0, den |-> 1],
             streams |-> <<>>]
      [] o = "get_settings" ->
            [frequency |-> 0, delivery |-> <<>>, modulation |-> <<>>,
             polarization |-> <<>>, tone |-> FALSE, azimuth |-> 0]
      [] o = "get_cache_storage" -> [used |-> 0, free |-> 0]
      [] o = "get_output_path" -> None
      [] OTHER -> <<>>

\* send returned None, empty data, or text that is not well-formed markup
NoDocument(d) == d = None \/ d = <<>> \/ IsRaise(fromstring(d))

\* C2: when the round trip yields no document (send returned None, empty
\* data or malformed markup) a get accessor returns exactly its documented
\* all-default value, the same in the three cases, and parse is not called
\* when send returned no data.
C2_NoDocumentDefaults ==
    (Done /\ op \in GetOps /\ IsRet(sendRet) /\ NoDocument(sendRet.v)) =>
        /\ Returns(result, DocumentedDefault(op))
        /\ (~Truthy(sendRet.v) => cnt.parses = 0)

C2_Witness ==
    /\ Done /\ op = "get_settings" /\ IsRet(sendRet)
    /\ Truthy(sendRet.v) /\ IsRaise(fromstring(sendRet.v))
    /\ cnt.parses = 1
    /\ Returns(result, DocumentedDefault("get_settings"))

\* the child of the named child of root, NoElem if either is absent
Node2(r, a, b) == IF Find(r, a) = NoElem THEN NoElem ELSE Find(Find(r, a), b)

\* C3: on a well-formed document a get accessor returns a structure, and
\* each field whose node is absent from the document has the value it has
\* when the daemon is unreachable.
C3_ShapeDefaults ==
    (Done /\ op \in GetOps /\ IsRet(sendRet) /\ root # NoElem) =>
        /\ IsRet(result)
        /\ op = "get_status" =>
            /\ Node2(root, "tuner", "lock") = NoElem =>
                  result.v.has_lock = DocumentedDefault(op).has_lock
            /\ Node2(root, "tuner", "signal") = NoElem =>
                  result.v.signal = DocumentedDefault(op).signal
            /\ Node2(root, "tuner", "snr") = NoElem =>
                  result.v.snr = DocumentedDefault(op).snr
            /\ Find(root, "streams") = NoElem =>
                  result.v.streams = DocumentedDefault(op).streams
        /\ op = "get_settings" =>
            /\ Node2(root, "tuner", "frequency") = NoElem =>
                  result.v.frequency = DocumentedDefault(op).frequency
            /\ Node2(root, "tuner", "delivery") = NoElem =>
                  result.v.delivery = DocumentedDefault(op).delivery
            /\ Node2(root, "tuner", "modulation") = NoElem =>
                  result.v.modulation = DocumentedDefault(op).modulation
            /\ Node2(root, "tuner", "voltage") = NoElem =>
                  result.v.polarization = DocumentedDefault(op).polarization
            /\ Node2(root, "tuner", "tone") = NoElem =>
                  result.v.tone = DocumentedDefault(op).tone
            /\ Node2(root, "tuner", "azimuth") = NoElem =>
                  result.v.azimuth = DocumentedDefault(op).azimuth
        /\ op = "get_cache_storage" =>
            /\ Node2(root, "cache", "used") = NoElem =>
                  result.v.used = DocumentedDefault(op).used
            /\ Node2(root, "cache", "free") = NoElem =>
                  result.v.free = DocumentedDefault(op).free
        /\ op \in {"get_file_list", "get_transfers"} =>
              (Find(root, "streams") = NoElem => result.v = <<>>)
        /\ op = "get_events" =>
              (Find(root, "events") = NoElem => result.v = <<>>)
        /\ op = "get_output_path" =>
              (Get(root, "path") = None => result.v = None)

\* C4: send returns None, and raises nothing, whenever a socket error or a
\* timeout occurs while connecting, while writing the payload or during any
\* recv of the read loop.
C4_SocketErrorGivesNone ==
    (sendRet.st # "none" /\ cnt.failed \in {"connect", "send", "recv"}) =>
        Returns(sendRet, None)

C4_Witness ==
    /\ Returns(sendRet, None)
    /\ cnt.failed = "recv"
    /\ cnt.recvs >= 2
    /\ rcvd # <<>>

\* C5: when a received chunk contains the NUL terminator, read returns
\* exactly the bytes received before the first NUL (stated for streams of
\* valid UTF-8).
C5_FramingByTerminator ==
    (readRet.st # "none" /\ Contains(rcvd, NUL) /\ ~Contains(rcvd, BAD)) =>
        Returns(readRet, BeforeNul(rcvd))

\* C6: when a zero-length chunk arrives before any chunk containing NUL,
\* read returns exactly the bytes received before it, the empty result if
\* the very first recv is zero-length (stated for streams of valid UTF-8).
C6_FramingByStreamEnd ==
    (readRet.st # "none" /\ eof /\ ~Contains(rcvd, NUL) /\ ~Contains(rcvd, BAD)) =>
        Returns(readRet, rcvd)

\* C7: once the socket is prepared, shutdown and close are not called while
\* the body runs, and when the body has exited, normally or by an
\* exception, shutdown has been called exactly once and then close exactly
\* once.
C7_ShutdownThenClose ==
    cnt.connected =>
        /\ pc \in {"send", "recv", "tail", "shutdown"} =>
              cnt.shutdowns = 0 /\ cnt.closes = 0
        /\ pc = "close" => cnt.shutdowns = 1 /\ cnt.closes = 0
        /\ pc \in {"handler", "query", "done"} =>
              cnt.shutdowns = 1 /\ cnt.closes = 1

\* C8: after a client operation has returned or failed, no socket that it
\* created is still open.
C8_UnconditionalRelease ==
    (Done /\ op \in ClientOps) => \A i \in OwnSocks : ~socks[i].open

\* C9: ping writes no payload and reads nothing; it returns True when the
\* connection was opened and closed without error and False, without
\* raising, when connecting raised a socket error or a timeout.
C9_PingConnectOnly ==
    op = "ping" =>
        /\ cnt.sends = 0 /\ cnt.recvs = 0 /\ cnt.sent = <<>>
        /\ (Done /\ cnt.connected /\ cnt.shutdowns = 1 /\ cnt.closes = 1) =>
              Returns(result, TRUE)
        /\ (Done /\ cnt.failed = "connect") => Returns(result, FALSE)

C9_Witness ==
    /\ Done /\ op = "ping"
    /\ cnt.connected /\ cnt.closes = 1
    /\ Returns(result, TRUE)

\* C10: an accessor call creates one socket and connects once, writes the
\* payload at most once and before the first recv, decodes at most once
\* (exactly once each when the exchange delivered data), has closed its
\* socket before it returns, and no socket serves two calls or stays open
\* between calls.
C10_OneExchangePerCall ==
    /\ op \in QueryOps =>
        /\ cnt.sockets <= 1 /\ cnt.connects <= 1 /\ cnt.sends <= 1
        /\ cnt.parses <= 1
        /\ cnt.recvs > 0 => cnt.sends = 1 /\ cnt.sent = bytes
        /\ (Done /\ IsRet(result)) =>
              cnt.sockets = 1 /\ cnt.connects = 1
        /\ (Done /\ IsRet(sendRet) /\ Truthy(sendRet.v)) =>
              cnt.sends = 1 /\ cnt.parses = 1
    /\ (pc \in {"idle", "done"} /\ op \in QueryOps \cup {"none"}) =>
          \A i \in 1..Len(socks) : ~socks[i].open
    /\ \A i, j \in 1..Len(socks) : socks[i].owner = socks[j].owner => i = j

\* C11: whenever the connection was opened, the payload was written and
\* read returned data without a socket error, send returns exactly the data
\* that read returned.
C11_SendReturnsRead ==
    (sendRet.st # "none" /\ cnt.connected /\ cnt.sends = 1
        /\ cnt.failed = "none" /\ IsRet(readRet)) =>
        Returns(sendRet, readRet.v)

\* C12: the socket timeout bounds the whole read phase of a call to send:
\* read never spends more than ONDD_SOCKET_TIMEOUT seconds blocked in recv,
\* so a daemon that sends no terminator and never closes cannot keep the
\* read loop running beyond it.
C12_TimeoutBoundsRead == cnt.waited <= ONDD_SOCKET_TIMEOUT

\* C13: set_settings and set_output_path return the bad-response marker
\* '400' when the round trip yields no parseable document (transport
\* failure, empty data or malformed markup), and otherwise the code
\* attribute of the root of the response.
C13_PutReturnsCode ==
    (Done /\ op \in PutOps) =>
        IF IsRet(sendRet) /\ ~NoDocument(sendRet.v)
        THEN Returns(result, Get(fromstring(sendRet.v).v, "code"))
        ELSE Returns(result, ONDD_BAD_RESPONSE_CODE)

\* C14: for every transfer node parse_transfer yields percentage 100 when
\* complete is 'yes', and otherwise floor(block_received * 100 /
\* max(block_count, 1)), an absent count standing for 0; no node makes it
\* divide by zero.
C14_Percentage ==
    (fnapp.fn = "parse_transfer" /\ fnapp.done) =>
        LET n(t) == IF t = None THEN 0 ELSE DigitsValue(t, 1, 0)
            bc == n(fnapp.arg.block_count)
            br == n(fnapp.arg.block_received)
        IN  /\ IsRet(fnapp.out)
            /\ fnapp.out.v.percentage =
                  IF fnapp.arg.complete = YES THEN 100
                  ELSE (br * 100) \div (IF bc > 1 THEN bc ELSE 1)

C14_Witness ==
    /\ fnapp.fn = "parse_transfer" /\ fnapp.done
    /\ fnapp.arg.block_count = None
    /\ fnapp.arg.block_received = IntStr(MaxBlocks)
    /\ fnapp.arg.complete = NO
    /\ fnapp.out.v.percentage = MaxBlocks * 100

\* C15: every record that get_transfers returns has an integer percentage
\* between 0 and 100, whatever non-negative block counts the daemon reports.
C15_PercentageInRange ==
    (Done /\ op = "get_transfers" /\ IsRet(result)) =>
        \A i \in 1..Len(result.v) : result.v[i].percentage \in 0..100

\* C16: freq_conv(f, lnb) is f - 10750 for North America Ku, |f - 5150| for
\* C band, and for Universal f - 10600 when f > 11700 and f - 9750 when
\* f <= 11700, the switch frequency itself taking the low-band offset; for
\* C band it is symmetric around 5150.
C16_FreqConv ==
    (fnapp.fn = "freq_conv" /\ fnapp.done) =>
        LET f == fnapp.arg.freq
            lnb == fnapp.arg.lnb_type
        IN  /\ lnb = "k" => fnapp.out = f - 10750
            /\ lnb = "c" =>
                  /\ fnapp.out = (IF f >= 5150 THEN f - 5150 ELSE 5150 - f)
                  /\ fnapp.out = freq_conv(2 * 5150 - f, "c")
            /\ lnb = "u" =>
                  fnapp.out = (IF f > 11700 THEN f - 10600 ELSE f - 9750)

C16_Witness ==
    /\ fnapp.fn = "freq_conv" /\ fnapp.done
    /\ fnapp.arg = [freq |-> 11700, lnb_type |-> "u"]
    /\ fnapp.out = 1950

Occurs(s, frag) ==
    Cardinality({p \in 1..(Len(s) - Len(frag) + 1) :
                    SubSeq(s, p, p + Len(frag) - 1) = frag})

RECURSIVE TotalLen(_)
TotalLen(frags) ==
    IF frags = <<>> THEN 0 ELSE Len(Head(frags)) + TotalLen(Tail(frags))

\* xml is made of the fragments, each occurring once, and of nothing else
OneFragmentEach(xml, frags) ==
    /\ \A i \in 1..Len(frags) : Occurs(xml, frags[i]) = 1
    /\ Len(xml) = TotalLen(frags)

Fragment(name, text) == <<Op(name)>> \o text \o <<Cl(name)>>

\* C18: set_settings encodes its seven fields in one put /settings request,
\* each as exactly one <name>value</name> fragment, tone as the word 'yes'
\* or 'no'; kw2xml yields exactly one fragment per field, and the empty
\* string for no field.
C18_SettingsEncoding ==
    /\ (fnapp.fn = "kw2xml" /\ fnapp.done) =>
          /\ OneFragmentEach(fnapp.out,
                [i \in 1..Len(fnapp.arg) |->
                    Fragment(fnapp.arg[i][1],
                             IF fnapp.arg[i][2].ty = "int"
                             THEN IntStr(fnapp.arg[i][2].v)
                             ELSE fnapp.arg[i][2].v)])
          /\ fnapp.arg = <<>> => fnapp.out = <<>>
    /\ (fnapp.fn = "set_settings" /\ fnapp.done) =>
          LET a == fnapp.arg
              n == Len(fnapp.out)
          IN  /\ n >= 2
              /\ fnapp.out[1] = OpA("put", <<<<"uri", Str1("/settings")>>>>)
              /\ fnapp.out[n] = Cl("put")
              /\ OneFragmentEach(SubSeq(fnapp.out, 2, n - 1),
                    << Fragment("frequency", IntStr(a.frequency)),
                       Fragment("symbolrate", IntStr(a.symbolrate)),
                       Fragment("delivery", a.delivery),
                       Fragment("modulation", a.modulation),
                       Fragment("tone", IF a.tone THEN Str1("yes") ELSE Str1("no")),
                       Fragment("voltage", IntStr(a.voltage)),
                       Fragment("azimuth", IntStr(a.azimuth)) >>)

C18_Witness ==
    /\ fnapp.fn = "set_settings" /\ fnapp.done
    /\ ~fnapp.arg.tone
    /\ Occurs(fnapp.out, Fragment("tone", Str1("no"))) = 1
    /\ Occurs(fnapp.out, Fragment("frequency", IntStr(11471))) = 1

\* C19: v2pol maps the voltage '13' to vertical, '18' to horizontal and
\* every other value, an absent voltage included, to unknown; get_settings
\* reports as polarization the v2pol of the voltage text of the tuner in
\* the response.
C19_Polarization ==
    LET pol(volts) == IF volts = <<Ch("1"), Ch("3")>> THEN <<Ch("v")>>
                      ELSE IF volts = <<Ch("1"), Ch("8")>> THEN <<Ch("h")>>
                      ELSE <<Ch("0")>>
    IN  /\ (fnapp.fn = "v2pol" /\ fnapp.done) => fnapp.out = pol(fnapp.arg)
        /\ (fnapp.fn = "get_settings" /\ fnapp.done) =>
              /\ IsRet(fnapp.out)
              /\ fnapp.out.v.polarization =
                    pol(IF fnapp.arg.tuner THEN fnapp.arg.voltage ELSE None)

C19_Witness ==
    /\ fnapp.fn = "get_settings" /\ fnapp.done
    /\ fnapp.arg.tuner
    /\ fnapp.arg.voltage = <<Ch("1"), Ch("8")>>
    /\ fnapp.out.v.polarization = <<Ch("h")>>

\* C20: read stops as soon as the message is delimited: a recv is issued
\* only while no chunk received held a NUL and none was empty, every recv
\* asks for the buffer size (2048), and once the delimiter has come nothing
\* more is taken from the peer, whatever it still has to send.
C20_ReadStopsAtDelimiter ==
    [][calls' = calls =>
          /\ cnt'.recvs > cnt.recvs =>
                /\ ~Contains(rcvd, NUL) /\ ~eof
                /\ cnt'.recvs = cnt.recvs + 1
                /\ cnt'.lastbuf = 2048
          /\ (Contains(rcvd, NUL) \/ eof) =>
                wire' = wire /\ rcvd' = rcvd /\ cnt'.recvs = cnt.recvs]_vars

C20_Witness ==
    /\ IsRet(readRet)
    /\ rcvd = <<Ch("a"), Ch("b"), Ch("c"), Ch("d"), NUL>>
    /\ idata = <<Ch("d"), NUL>>
    /\ cnt.recvs = 4
    /\ wire = <<Ch("e"), Ch("f")>>

\* s with one NUL after it unless it ends with one already
Terminate(s) ==
    IF s # <<>> /\ s[Len(s)] = NUL THEN s ELSE s \o <<NUL>>

\* C21: for every payload string null_terminate returns a string that ends
\* with NUL, the input itself when that ends with NUL and the input plus
\* one NUL otherwise, and applying it again changes nothing; the bytes that
\* send writes are exactly the encoding of null_terminate(payload).
C21_NullTerminate ==
    /\ (fnapp.fn = "null_terminate" /\ fnapp.done) =>
          /\ IsRet(fnapp.out)
          /\ fnapp.out.v[Len(fnapp.out.v)] = NUL
          /\ fnapp.out.v = Terminate(fnapp.arg)
          /\ Returns(null_terminate(fnapp.out.v), fnapp.out.v)
    /\ (cnt.sends = 1 /\ cnt.failed # "send") => cnt.sent = Terminate(payload)

\* the same for the payloads that are not empty
C21_NonEmptyPayloads ==
    (/\ fnapp.fn = "null_terminate" => fnapp.arg # <<>>
     /\ calls > 0 => payload # <<>>) => C21_NullTerminate

\* C22: get_text returns the default whenever the path does not resolve to
\* text, that is when there is no root, when no node matches the path and
\* when the matched node has no text; otherwise it returns the text of the
\* first matching node.
C22_GetTextDefault ==
    (fnapp.fn = "get_text" /\ fnapp.done) =>
        LET node == IF fnapp.arg.doc = None THEN NoElem
                    ELSE FindPath(fromstring(fnapp.arg.doc).v, fnapp.arg.xpath)
        IN  fnapp.out = IF node = NoElem \/ node.text = None
                        THEN fnapp.arg.default
                        ELSE node.text

\* the same when the matched node, if there is one, has text
C22_NodesWithText ==
    (fnapp.fn = "get_text" /\ fnapp.done /\ fnapp.out # None) =>
        C22_GetTextDefault

\* C23: the timeout of 20 seconds is set on the socket before connect is
\* attempted: every connect, send and recv of a call is made on a socket
\* whose timeout is 20 already, and a timeout of 20 is never changed.
C23_TimeoutBeforeConnect ==
    [][/\ (calls' = calls /\ (\/ cnt'.connects > cnt.connects
                              \/ cnt'.sends > cnt.sends
                              \/ cnt'.recvs > cnt.recvs)) =>
              socks[sock].timeout = 20
       /\ \A i \in 1..Len(socks) :
              socks[i].timeout = 20 => socks'[i].timeout = 20]_vars

C23_Witness ==
    /\ calls = 2
    /\ cnt.connects = 1 /\ cnt.sends = 1 /\ cnt.recvs = 2
    /\ socks[sock].timeout = 20
    /\ socks[1].timeout = 20

\* C24: for a Universal LNB freq_conv takes the high-band offset, f - 10600,
\* exactly when needs_tone is true, and the low-band offset, f - 9750,
\* exactly when it is false; the two agree on the band at every frequency,
\* 11700 included.
C24_BandConsistency ==
    (fnapp.fn = "universal_band" /\ fnapp.done) =>
        /\ (fnapp.out.conv = fnapp.arg.freq - 10600) <=> fnapp.out.tone
        /\ (fnapp.out.conv = fnapp.arg.freq - 9750) <=> ~fnapp.out.tone

C24_Witness ==
    /\ fnapp.fn = "universal_band" /\ fnapp.done
    /\ fnapp.arg.freq = 11700
    /\ fnapp.out = [conv |-> 1950, tone |-> FALSE]
====
